---- MODULE Spec2Model ----
(***************************************************************************)
(* Scan / drawer / history lifecycle of the QR scanner application.        *)
(*                                                                         *)
(* App (state container), Scanner (decode gate and hand-off timers) and    *)
(* ResultDrawer (enrichment effect) are modelled as one state machine.     *)
(* React state is split in two layers: the state the setters have written  *)
(* (scannedResult, isDrawerOpen, history, view) and the last committed     *)
(* render (rendered), from which closures, refs and click handlers read.   *)
(* Updates made from a timer or a promise callback are rendered later, by  *)
(* the Render step; updates made from a click are rendered, and their      *)
(* effects flushed, before the click returns.                              *)
(*                                                                         *)
(* The camera side of Scanner (scan mode, runs of the decoder, torch) and  *)
(* the enrichment service (analyzeQRContent) are state machines of their   *)
(* own, on their own variables: SpecCamera and SpecService.                *)
(***************************************************************************)
EXTENDS Integers, Sequences, FiniteSets, Bags, TLC

(* ---------------------------------------------------------------- bounds *)
\* Largest number of decode events accepted (hand-off timers created) in a run.
MaxScans == 2
\* Largest number of history taps in a run.
MaxTaps == 1
\* The rows of the history list a tap is tried on: the newest MaxRows and the oldest.
MaxRows == 2
\* Accepted decode events of a session that stays in the scan view.
MaxBurst == 3
\* Largest number of scan mode changes in a run.
MaxModeChanges == 2
\* Largest number of torch button clicks in a run.
MaxToggles == 2
\* Largest number of analyzeQRContent calls in a run of the service.
MaxAnalyze == 3
\* Largest number of result points of a decode event.
MaxPoints == 3

(* ------------------------------------------------------------- constants *)
\* History bound of handleScan: [result, ...prev].slice(0, 50).
HistoryMax == 50

(* ------------------------------------------------------------ data model *)
\* result === null / result.analysis === undefined
Null == [null |-> TRUE]

\* The members of the decoder library's BarcodeFormat enum that Scanner names.
BarcodeFormat ==
  [ AZTEC |-> 0, CODABAR |-> 1, CODE_39 |-> 2, CODE_93 |-> 3, CODE_128 |-> 4,
    DATA_MATRIX |-> 5, EAN_8 |-> 6, EAN_13 |-> 7, ITF |-> 8, MAXICODE |-> 9,
    PDF_417 |-> 10, QR_CODE |-> 11, RSS_14 |-> 12, RSS_EXPANDED |-> 13,
    UPC_A |-> 14, UPC_E |-> 15, UPC_EAN_EXTENSION |-> 16 ]

formatMap ==
  [ f \in { BarcodeFormat[n] : n \in DOMAIN BarcodeFormat } |->
      CHOOSE n \in DOMAIN BarcodeFormat : BarcodeFormat[n] = f ]

getFormatName(format) ==
  IF format \in DOMAIN formatMap THEN formatMap[format] ELSE "UNKNOWN"

is2DFormat(format) ==
  format \in { BarcodeFormat.QR_CODE, BarcodeFormat.AZTEC, BarcodeFormat.DATA_MATRIX,
               BarcodeFormat.MAXICODE, BarcodeFormat.PDF_417 }

\* n result points, all different.
Points(n) == [i \in 1..n |-> [x |-> i, y |-> n + i]]

\* The canvas after clearRect.
NoDrawing == [path |-> << >>, closed |-> FALSE, filled |-> FALSE, glow |-> FALSE]

\* drawResultOverlay drawing every format as a polygon
drawResultOverlayAllPolygons(resultPoints, format) ==
  [ path |-> resultPoints, closed |-> Len(resultPoints) > 0,
    filled |-> TRUE, glow |-> FALSE ]

\* The canvas after drawResultOverlay: clearRect, then the path that is stroked
\* (and filled for a 2D format); glow: the stroke has shadowBlur.
drawResultOverlay(resultPoints, format) ==
  IF is2DFormat(format)
  THEN [ path |-> resultPoints, closed |-> Len(resultPoints) > 0,
         filled |-> TRUE, glow |-> FALSE ]
  ELSE IF Len(resultPoints) >= 2
       THEN [ path |-> << resultPoints[1], resultPoints[Len(resultPoints)] >>,
              closed |-> FALSE, filled |-> FALSE, glow |-> TRUE ]
       ELSE NoDrawing

\* Decoded payloads: text (as characters) and BarcodeFormat value. Decode events
\* report the payloads of Codes; EanDigits is the other payload of a pre-filled
\* History.
QrUrl ==
  [text |-> <<"h", "t", "t", "p">>, format |-> BarcodeFormat.QR_CODE,
   points |-> Points(MaxPoints)]
EanDigits ==
  [text |-> <<"0", "1">>, format |-> BarcodeFormat.EAN_13, points |-> Points(MaxPoints)]
Codes == { QrUrl }

\* The values analyzeQRContent resolves to in the model.
Analyses == { [safety |-> "safe"], [safety |-> "unknown"] }

startsWith(data, prefix) ==
  /\ Len(data) >= Len(prefix)
  /\ SubSeq(data, 1, Len(prefix)) = prefix

\* determineType with 'other', the fifth member of ScanResult['type'], as its default
determineTypeOther(data, format) ==
  IF startsWith(data, <<"h", "t", "t", "p">>) THEN "url"
  ELSE IF startsWith(data, <<"W", "I", "F", "I", ":">>) THEN "wifi"
  ELSE IF format \in {"EAN_8", "EAN_13", "UPC_A", "UPC_E", "CODE_39", "CODE_128"}
       THEN "product"
  ELSE "other"

determineType(data, format) ==
  IF startsWith(data, <<"h", "t", "t", "p">>) THEN "url"
  ELSE IF startsWith(data, <<"W", "I", "F", "I", ":">>) THEN "wifi"
  ELSE IF format \in {"EAN_8", "EAN_13", "UPC_A", "UPC_E", "CODE_39", "CODE_128"}
       THEN "product"
  ELSE "text"

\* The ScanResult the hand-off timer builds.
ScanResult(code, ts) ==
  [ data      |-> code.text,
    format    |-> getFormatName(code.format),
    timestamp |-> ts,
    type      |-> determineType(code.text, getFormatName(code.format)),
    analysis  |-> Null ]

Min(a, b) == IF a <= b THEN a ELSE b

\* slice(0, n) taking one element too many
SliceOffByOne(s, n) == SubSeq(s, 1, Min(Len(s), n + 1))

\* Array.prototype.slice(0, n)
Slice0(s, n) == SubSeq(s, 1, Min(Len(s), n))

\* handleScan inserting only payloads History does not hold yet
InsertUnlessSameData(hist, result) ==
  IF \E i \in DOMAIN hist : hist[i].data = result.data
  THEN hist
  ELSE Slice0(<< result >> \o hist, HistoryMax)

\* handleScan: setHistory(prev => [result, ...prev].slice(0, 50))
InsertResult(hist, result) == Slice0(<< result >> \o hist, HistoryMax)

(* ----------------------------------------------------------------- state *)
VARIABLES
  scannedResult,   \* App: active result, Null when none
  isDrawerOpen,    \* App: drawer flag
  history,         \* App: sequence of ScanResult, newest first
  view,            \* App: "scan" or "history"
  rendered,        \* the App state of the last committed render
  resultChanged,   \* scannedResult was set to another object since the last render
  isScanningRef,   \* Scanner: isScanningRef.current
  onScanRef,       \* Scanner: isDrawerOpen as captured by onScanRef.current
  timers,          \* pending hand-off timers, in firing order
  analysis,        \* ResultDrawer: analysis state
  loading,         \* ResultDrawer: loading state
  calls,           \* bag of analyzeQRContent calls in flight
  now,             \* last value Date.now() returned
  nDecodes,        \* decode events accepted so far
  nTaps,           \* history taps so far
  issued,          \* history variable: bag of timestamps, one copy per call issued
  activated,       \* history variable: bag of timestamps, one copy per activation
  sessionInserts,  \* history variable: scans surfaced since the last closeDrawer
  lastOp,          \* history variable: the step just taken
  overlay,         \* Scanner: what the overlay canvas shows
  scanMode,        \* Scanner: "auto", "qr" or "barcode"
  hasPermission,   \* Scanner: "null", "true" or "false"
  error,           \* Scanner: "null" or the kind of the message shown
  hasTorch,        \* Scanner: the torch button is shown
  torchOn,         \* Scanner: torch indicator
  runs,            \* one record per run of the scanMode effect, oldest first
  srcObject,       \* index in runs of the stream on the video element, 0 when none
  torchCalls,      \* bag of applyConstraints calls of toggleTorch in flight
  nModeChanges,    \* scan mode changes so far
  nToggles,        \* torch button clicks so far
  toggledSince,    \* history variable: the torch button was clicked since the last
                   \* mode change
  apiKey,          \* geminiService: process.env.API_KEY of the build
  genAIInstance,   \* geminiService: the client was created
  inFlight,        \* geminiService: generateContent calls awaited
  nRequests,       \* generateContent calls made so far
  nAnalyze,        \* analyzeQRContent calls so far
  returned         \* the value the last finished analyzeQRContent resolved to

sessionVars ==
  << scannedResult, isDrawerOpen, history, view, rendered, resultChanged,
     isScanningRef, onScanRef, timers, analysis, loading, calls, now,
     nDecodes, nTaps, issued, activated, sessionInserts, lastOp, overlay >>

cameraVars ==
  << scanMode, hasPermission, error, hasTorch, torchOn, runs, srcObject,
     torchCalls, nModeChanges, nToggles, toggledSince >>

serviceVars == << apiKey, genAIInstance, inFlight, nRequests, nAnalyze, returned >>

vars == << sessionVars, cameraVars, serviceVars >>

appVars == << scannedResult, isDrawerOpen, history, view >>
scannerVars == << isScanningRef, onScanRef >>
drawerVars == << analysis, loading, calls, issued >>

Op(name, ts, flag) == [op |-> name, ts |-> ts, flag |-> flag]

\* The step of a hand-off timer; next: its decode event was the first step after
\* a closeDrawer.
ScanOp(ts, flag, next) == [op |-> "scan", ts |-> ts, flag |-> flag, next |-> next]

AppState(sr, open, hist, v) ==
  [scannedResult |-> sr, isDrawerOpen |-> open, history |-> hist, view |-> v]

(* --------------------------------------------------------------- Scanner *)
\* A timer created by the mounted Scanner reads onScanRef.current when it fires;
\* once that Scanner is unmounted its ref is never written again.
Freeze(t) ==
  IF t.onScan = "ref"
  THEN [t EXCEPT !.onScan = IF onScanRef THEN "open" ELSE "closed"]
  ELSE t

\* isDrawerOpen as seen by the handleScan the timer calls.
ClosureOpen(t) ==
  IF t.onScan = "ref" THEN onScanRef ELSE t.onScan = "open"

(* ---------------------------------------------------------- ResultDrawer *)
EnrichCall(result) ==
  [data |-> result.data, format |-> result.format, timestamp |-> result.timestamp]

\* The effect running on every render, whether or not result changed
DrawerEffectEveryRender(result, changed) ==
  IF result # Null
  THEN IF result.analysis # Null
       THEN /\ analysis' = result.analysis
            /\ loading' = FALSE
            /\ UNCHANGED << calls, issued >>
       ELSE /\ loading' = TRUE
            /\ analysis' = Null
            /\ calls' = calls (+) SetToBag({EnrichCall(result)})
            /\ issued' = issued (+) SetToBag({result.timestamp})
  ELSE UNCHANGED drawerVars

\* The effect without its cache branch: it fetches whenever result changed
DrawerEffectNoCache(result, changed) ==
  IF changed /\ result # Null
  THEN /\ loading' = TRUE
       /\ analysis' = Null
       /\ calls' = calls (+) SetToBag({EnrichCall(result)})
       /\ issued' = issued (+) SetToBag({result.timestamp})
  ELSE UNCHANGED drawerVars

\* The effect skipping the fetch while a call for the same timestamp is in flight
DrawerEffectSkipInFlight(result, changed) ==
  IF changed /\ result # Null
  THEN IF result.analysis # Null
       THEN /\ analysis' = result.analysis
            /\ loading' = FALSE
            /\ UNCHANGED << calls, issued >>
       ELSE /\ loading' = TRUE
            /\ analysis' = Null
            /\ IF \E c \in BagToSet(calls) : c.timestamp = result.timestamp
               THEN UNCHANGED << calls, issued >>
               ELSE /\ calls' = calls (+) SetToBag({EnrichCall(result)})
                    /\ issued' = issued (+) SetToBag({result.timestamp})
  ELSE UNCHANGED drawerVars

\* The effect with a cleanup that aborts the calls in flight when result changes
DrawerEffectAbortPrevious(result, changed) ==
  IF changed
  THEN IF result # Null
       THEN IF result.analysis # Null
            THEN /\ analysis' = result.analysis
                 /\ loading' = FALSE
                 /\ calls' = EmptyBag
                 /\ UNCHANGED issued
            ELSE /\ loading' = TRUE
                 /\ analysis' = Null
                 /\ calls' = SetToBag({EnrichCall(result)})
                 /\ issued' = issued (+) SetToBag({result.timestamp})
       ELSE /\ calls' = EmptyBag
            /\ UNCHANGED << analysis, loading, issued >>
  ELSE UNCHANGED drawerVars

\* useEffect(..., [result, onAnalysisComplete])
DrawerEffect(result, changed) ==
  IF changed /\ result # Null
  THEN IF result.analysis # Null
       THEN /\ analysis' = result.analysis
            /\ loading' = FALSE
            /\ UNCHANGED << calls, issued >>
       ELSE /\ loading' = TRUE
            /\ analysis' = Null
            /\ calls' = calls (+) SetToBag({EnrichCall(result)})
            /\ issued' = issued (+) SetToBag({result.timestamp})
  ELSE UNCHANGED drawerVars

(* ----------------------------------------------------------------- render *)
\* One committed render of App with its passive effects: Scanner is mounted in the
\* scan view only, its two ref effects run (the isScanning effect, which runs when
\* isScanning changed or the Scanner was mounted, clears the canvas when isScanning
\* is false; a mounted canvas is empty), the drawer effect runs. changed: the
\* render has a new scannedResult; pending: a new scannedResult is still queued.
Commit(sr, open, hist, v, changed, pending) ==
  /\ rendered' = AppState(sr, open, hist, v)
  /\ resultChanged' = pending
  /\ IF v = "scan"
     THEN /\ isScanningRef' = (~open /\ v = "scan")
          /\ onScanRef' = open
     ELSE UNCHANGED scannerVars
  /\ timers' = IF rendered.view = "scan" /\ v # "scan"
               THEN [i \in DOMAIN timers |-> Freeze(timers[i])]
               ELSE timers
  /\ overlay' = IF v # "scan" \/ rendered.view # "scan" THEN NoDrawing
                ELSE IF open /\ ~rendered.isDrawerOpen THEN NoDrawing
                ELSE overlay
  /\ DrawerEffect(sr, changed)

(* ------------------------------------------------ Scanner: camera and mode *)
Modes == {"auto", "qr", "barcode"}

\* The auto mode recognising every format of the two other modes
ModeFormatsUnion(mode) ==
  LET F == BarcodeFormat IN
  IF mode = "qr"
  THEN { F.QR_CODE, F.AZTEC, F.DATA_MATRIX, F.PDF_417 }
  ELSE IF mode = "barcode"
  THEN { F.CODE_128, F.CODE_39, F.CODE_93, F.EAN_13, F.EAN_8, F.UPC_A, F.UPC_E,
         F.ITF, F.CODABAR, F.RSS_14 }
  ELSE { F.QR_CODE, F.AZTEC, F.DATA_MATRIX, F.PDF_417,
         F.CODE_128, F.CODE_39, F.CODE_93, F.EAN_13, F.EAN_8, F.UPC_A, F.UPC_E,
         F.ITF, F.CODABAR, F.RSS_14 }

\* The formats pushed as POSSIBLE_FORMATS hint for a scan mode.
ModeFormats(mode) ==
  LET F == BarcodeFormat IN
  IF mode = "qr"
  THEN { F.QR_CODE, F.AZTEC, F.DATA_MATRIX, F.PDF_417 }
  ELSE IF mode = "barcode"
  THEN { F.CODE_128, F.CODE_39, F.CODE_93, F.EAN_13, F.EAN_8, F.UPC_A, F.UPC_E,
         F.ITF, F.CODABAR, F.RSS_14 }
  ELSE { F.QR_CODE, F.AZTEC, F.DATA_MATRIX, F.CODE_128, F.CODE_39, F.EAN_13,
         F.EAN_8, F.UPC_A, F.UPC_E, F.PDF_417 }

\* A run of the effect: codeReader with its hints, controls still null, the first
\* decodeFromConstraints awaited. phase: "starting" (first attempt awaited),
\* "fallback" (second attempt awaited), "running" (stream open, decode loop on),
\* "stopped", "cancelled", "failed". cleaned: the cleanup of the effect has run.
NewRun(mode) ==
  [mode |-> mode, formats |-> ModeFormats(mode), phase |-> "starting",
   cleaned |-> FALSE, failure |-> "none"]

Pending(run) == run.phase \in {"starting", "fallback"}

\* The cleanup of the newest effect: controls.stop() when controls was assigned,
\* then codeReader.reset(). A start still awaited has assigned no controls; whether
\* reset() makes the decoder library give it up is the library's choice (cancel).
Cleanup(rs, cancel) ==
  LET r == rs[Len(rs)] IN
  [rs EXCEPT ![Len(rs)] =
     [r EXCEPT !.cleaned = TRUE,
               !.phase = IF r.phase = "running" THEN "stopped"
                         ELSE IF Pending(r) /\ cancel THEN "cancelled"
                         ELSE r.phase]]

InitCamera ==
  /\ scanMode = "auto"
  /\ hasPermission = "null"
  /\ error = "null"
  /\ hasTorch = FALSE
  /\ torchOn = FALSE
  /\ runs = << NewRun("auto") >>
  /\ srcObject = 0
  /\ torchCalls = EmptyBag
  /\ nModeChanges = 0
  /\ nToggles = 0
  /\ toggledSince = FALSE

\* The Scanner mounted where navigator.mediaDevices.getUserMedia does not exist:
\* startScanning returns at its support test.
InitCameraUnsupported ==
  /\ scanMode = "auto"
  /\ hasPermission = "false"
  /\ error = "not supported"
  /\ hasTorch = FALSE
  /\ torchOn = FALSE
  /\ runs = << [NewRun("auto") EXCEPT !.phase = "failed", !.failure = "unsupported"] >>
  /\ srcObject = 0
  /\ torchCalls = EmptyBag
  /\ nModeChanges = 0
  /\ nToggles = 0
  /\ toggledSince = FALSE

\* A click on a mode button with another mode: setScanMode(m), then the render runs
\* the cleanup of the old effect and the new effect (setTorchOn(false), startScanning).
ModeChange(m, cancel) ==
  /\ hasPermission # "false"
  /\ m # scanMode
  /\ nModeChanges < MaxModeChanges
  /\ nModeChanges' = nModeChanges + 1
  /\ scanMode' = m
  /\ runs' = Append(Cleanup(runs, cancel), NewRun(m))
  /\ srcObject' = IF srcObject = Len(runs) THEN 0 ELSE srcObject
  /\ torchOn' = FALSE
  /\ error' = "null"
  /\ toggledSince' = FALSE
  /\ UNCHANGED << hasPermission, hasTorch, torchCalls, nToggles, sessionVars, serviceVars >>

\* decodeFromConstraints of run i resolves: the stream is on the video element and
\* the decode loop runs; startScanning goes on to the torch capability test
\* (the video element exists unless the error screen is rendered).
StartResolve(i, torch) ==
  /\ i \in DOMAIN runs
  /\ Pending(runs[i])
  /\ runs' = [runs EXCEPT ![i].phase = "running"]
  /\ srcObject' = i
  /\ hasTorch' = (hasTorch \/ (torch /\ hasPermission # "false"))
  /\ hasPermission' = "true"
  /\ UNCHANGED << scanMode, error, torchOn, torchCalls, nModeChanges, nToggles,
                  toggledSince, sessionVars, serviceVars >>

\* The text setError is given for an error caught by startScanning.
ErrorMessage(name) ==
  IF name = "NotAllowedError" THEN "permission denied"
  ELSE IF name = "NotFoundError" THEN "no camera device"
  ELSE "unable to access camera"

\* The outer catch of startScanning setting the message without setHasPermission(false)
StartRejectNoBlock(i, name) ==
  /\ i \in DOMAIN runs
  /\ Pending(runs[i])
  /\ IF runs[i].phase = "starting"
     THEN /\ runs' = [runs EXCEPT ![i].phase = "fallback"]
          /\ UNCHANGED << hasPermission, error >>
     ELSE /\ runs' = [runs EXCEPT ![i].phase = "failed", ![i].failure = name]
          /\ error' = ErrorMessage(name)
          /\ UNCHANGED hasPermission
  /\ UNCHANGED << scanMode, hasTorch, torchOn, srcObject, torchCalls, nModeChanges,
                  nToggles, toggledSince, sessionVars, serviceVars >>

\* decodeFromConstraints of run i rejects with an error of the given name: the first
\* attempt falls back to { video: true }, the second ends in the outer catch.
StartReject(i, name) ==
  /\ i \in DOMAIN runs
  /\ Pending(runs[i])
  /\ IF runs[i].phase = "starting"
     THEN /\ runs' = [runs EXCEPT ![i].phase = "fallback"]
          /\ UNCHANGED << hasPermission, error >>
     ELSE /\ runs' = [runs EXCEPT ![i].phase = "failed", ![i].failure = name]
          /\ hasPermission' = "false"
          /\ error' = ErrorMessage(name)
  /\ UNCHANGED << scanMode, hasTorch, torchOn, srcObject, torchCalls, nModeChanges,
                  nToggles, toggledSince, sessionVars, serviceVars >>

\* A click on the torch button, up to the await of applyConstraints.
ToggleTorch ==
  /\ hasPermission # "false"
  /\ hasTorch
  /\ srcObject # 0
  /\ nToggles < MaxToggles
  /\ nToggles' = nToggles + 1
  /\ torchCalls' = torchCalls (+) SetToBag({[newStatus |-> ~torchOn]})
  /\ toggledSince' = TRUE
  /\ UNCHANGED << scanMode, hasPermission, error, hasTorch, torchOn, runs, srcObject,
                  nModeChanges, sessionVars, serviceVars >>

\* applyConstraints settles: setTorchOn(newStatus) when it resolved, a log line when
\* it rejected.
TorchSettle(call, ok) ==
  /\ BagIn(call, torchCalls)
  /\ torchCalls' = torchCalls (-) SetToBag({call})
  /\ torchOn' = IF ok THEN call.newStatus ELSE torchOn
  /\ UNCHANGED << scanMode, hasPermission, error, hasTorch, runs, srcObject,
                  nModeChanges, nToggles, toggledSince, sessionVars, serviceVars >>

ErrorNames == {"NotAllowedError", "NotFoundError", "OtherError"}

NextCamera ==
  \/ \E m \in Modes, cancel \in BOOLEAN : ModeChange(m, cancel)
  \/ \E i \in DOMAIN runs, torch \in BOOLEAN : StartResolve(i, torch)
  \/ \E i \in DOMAIN runs, name \in ErrorNames : StartReject(i, name)
  \/ ToggleTorch
  \/ \E call \in BagToSet(torchCalls), ok \in BOOLEAN : TorchSettle(call, ok)

(* ------------------------------------------------------- geminiService *)
\* process.env.API_KEY: not defined, or defined with a text.
ApiKeys ==
  { [defined |-> FALSE, text |-> ""],
    [defined |-> TRUE, text |-> ""],
    [defined |-> TRUE, text |-> "undefined"],
    [defined |-> TRUE, text |-> "your_google_api_key_here"],
    [defined |-> TRUE, text |-> "key"] }

\* The key of a build that was given a credential.
BuildKey == [defined |-> TRUE, text |-> "key"]

\* !apiKey || apiKey === 'undefined' || apiKey === ''
KeyMissing(k) == ~k.defined \/ k.text = "" \/ k.text = "undefined"

ConfigurationError ==
  [safety |-> "unknown", category |-> "Configuration Error",
   summary |-> "API Key is missing. Please add VITE_API_KEY to your .env file or GitHub Secrets."]

SearchFailed ==
  [safety |-> "unknown", category |-> "Unknown",
   summary |-> "Could not perform online search. Check connection or API quota."]

EmptyObject == [x \in {} |-> ""]

\* The objects the model's JSON texts stand for.
Objects ==
  { [safety |-> "safe", category |-> "Website", summary |-> "found"],
    [safety |-> "bogus", summary |-> "found"],
    EmptyObject }

\* Responses of generateContent: text is absent, prose, or the JSON text of an
\* object, bare or inside a markdown fence; web: a grounding chunk with a uri.
Responses ==
  [text : {"absent", "prose"}, fenced : {FALSE}, object : {EmptyObject}, web : BOOLEAN]
  \cup [text : {"json"}, fenced : BOOLEAN, object : Objects, web : BOOLEAN]

\* text.replace(/```json/g, '').replace(/```/g, '')
StripFences(resp) == [resp EXCEPT !.fenced = FALSE]

\* The part of analyzeQRContent after the await: response.text || "{}", the fence
\* markers removed, JSON.parse with its fallback, then the sources.
Finish(resp) ==
  LET text == IF resp.text = "absent"
              THEN [text |-> "json", fenced |-> FALSE, object |-> EmptyObject]
              ELSE StripFences(resp)
      result == IF text.text = "json" /\ ~text.fenced
                THEN text.object
                ELSE [safety |-> "unknown", category |-> "Search Result",
                      summary |-> "prose...", productName |-> "Detected Item"]
      sources == IF resp.web THEN << [title |-> "Web Source", uri |-> "uri"] >> ELSE << >>
  IN [sources |-> sources] @@ result

\* The module as loaded, in a build whose API_KEY is one of keys.
InitService(keys) ==
  /\ apiKey \in keys
  /\ genAIInstance = FALSE
  /\ inFlight = 0
  /\ nRequests = 0
  /\ nAnalyze = 0
  /\ returned = Null

\* analyzeQRContent creating the client before it tests the key
AnalyzeInitFirst ==
  /\ nAnalyze < MaxAnalyze
  /\ nAnalyze' = nAnalyze + 1
  /\ genAIInstance' = TRUE
  /\ IF KeyMissing(apiKey)
     THEN /\ returned' = ConfigurationError
          /\ UNCHANGED << inFlight, nRequests >>
     ELSE /\ inFlight' = inFlight + 1
          /\ nRequests' = nRequests + 1
          /\ UNCHANGED returned
  /\ UNCHANGED << apiKey, sessionVars, cameraVars >>

\* analyzeQRContent(content, format) up to its return or its await.
Analyze ==
  /\ nAnalyze < MaxAnalyze
  /\ nAnalyze' = nAnalyze + 1
  /\ IF KeyMissing(apiKey)
     THEN /\ returned' = ConfigurationError
          /\ UNCHANGED << genAIInstance, inFlight, nRequests >>
     ELSE /\ genAIInstance' = TRUE
          /\ inFlight' = inFlight + 1
          /\ nRequests' = nRequests + 1
          /\ UNCHANGED returned
  /\ UNCHANGED << apiKey, sessionVars, cameraVars >>

\* generateContent resolves and analyzeQRContent returns.
Respond(resp) ==
  /\ inFlight > 0
  /\ inFlight' = inFlight - 1
  /\ returned' = Finish(resp)
  /\ UNCHANGED << apiKey, genAIInstance, nRequests, nAnalyze, sessionVars, cameraVars >>

\* generateContent rejects and the catch block returns.
Reject ==
  /\ inFlight > 0
  /\ inFlight' = inFlight - 1
  /\ returned' = SearchFailed
  /\ UNCHANGED << apiKey, genAIInstance, nRequests, nAnalyze, sessionVars, cameraVars >>

NextService ==
  \/ Analyze
  \/ \E resp \in Responses : Respond(resp)
  \/ Reject

(* ------------------------------------------------------------------- Init *)
InitSession ==
  /\ scannedResult = Null
  /\ isDrawerOpen = FALSE
  /\ history = << >>
  /\ view = "scan"
  /\ rendered = AppState(Null, FALSE, << >>, "scan")
  /\ resultChanged = FALSE
  /\ isScanningRef = TRUE
  /\ onScanRef = FALSE
  /\ timers = << >>
  /\ analysis = Null
  /\ loading = FALSE
  /\ calls = EmptyBag
  /\ now = 0
  /\ nDecodes = 0
  /\ overlay = NoDrawing
  /\ nTaps = 0
  /\ issued = EmptyBag
  /\ activated = EmptyBag
  /\ sessionInserts = 0
  /\ lastOp = Op("init", 0, FALSE)

\* The App after its first render, in a build with a credential.
Init == InitSession /\ InitCamera /\ InitService({BuildKey})

\* The App after its first render, in a build with any API_KEY.
InitBuilds == InitSession /\ InitCamera /\ InitService(ApiKeys)

(* ---------------------------------------------------------------- actions *)
\* handleDecode keeping one timer: a new result cancels the pending hand-off
handleDecodeOneTimer(code, max) ==
  /\ rendered.view = "scan"
  /\ IF isScanningRef
     THEN /\ nDecodes < max
          /\ timers' = << [code |-> code, onScan |-> "ref",
                           next |-> lastOp.op = "close"] >>
          /\ nDecodes' = nDecodes + 1
          /\ overlay' = drawResultOverlay(code.points, code.format)
          /\ lastOp' = Op("decode", 0, TRUE)
     ELSE /\ UNCHANGED << timers, nDecodes, overlay >>
          /\ lastOp' = Op("decode", 0, FALSE)
  /\ UNCHANGED << appVars, rendered, resultChanged, scannerVars, drawerVars, now,
                  nTaps, activated, sessionInserts >>
  /\ UNCHANGED << cameraVars, serviceVars >>

\* Scanner.handleDecode(result, err) with a result, while the Scanner is mounted;
\* max caps the number of accepted decode events of a behaviour.
handleDecode(code, max) ==
  /\ rendered.view = "scan"
  /\ IF isScanningRef
     THEN /\ nDecodes < max
          /\ timers' = Append(timers, [code |-> code, onScan |-> "ref",
                                     next |-> lastOp.op = "close"])
          /\ nDecodes' = nDecodes + 1
          /\ overlay' = drawResultOverlay(code.points, code.format)
          /\ lastOp' = Op("decode", 0, TRUE)
     ELSE /\ UNCHANGED << timers, nDecodes, overlay >>
          /\ lastOp' = Op("decode", 0, FALSE)
  /\ UNCHANGED << appVars, rendered, resultChanged, scannerVars, drawerVars, now,
                  nTaps, activated, sessionInserts >>
  /\ UNCHANGED << cameraVars, serviceVars >>

\* handleDecode without the isScanningRef.current test
DecodeUngated(code) ==
  /\ rendered.view = "scan"
  /\ nDecodes < MaxScans
  /\ timers' = Append(timers, [code |-> code, onScan |-> "ref",
                                     next |-> lastOp.op = "close"])
  /\ nDecodes' = nDecodes + 1
  /\ overlay' = drawResultOverlay(code.points, code.format)
  /\ lastOp' = Op("decode", 0, isScanningRef)
  /\ UNCHANGED << appVars, rendered, resultChanged, scannerVars, drawerVars, now,
                  nTaps, activated, sessionInserts >>
  /\ UNCHANGED << cameraVars, serviceVars >>

Decode(code) == handleDecode(code, MaxScans)

\* A decode event of a session that stays in the scan view.
DecodeBurst(code) == handleDecode(code, MaxBurst)

\* The setTimeout callback of handleDecode calling App.handleScan.
TimerFire(ts) ==
  /\ timers # << >>
  /\ ts \in {now, now + 1}
  /\ now' = ts
  /\ timers' = Tail(timers)
  /\ LET result == ScanResult(Head(timers).code, ts) IN
     IF ClosureOpen(Head(timers))
     THEN /\ UNCHANGED << appVars, resultChanged, activated, sessionInserts >>
          /\ lastOp' = ScanOp(ts, FALSE, Head(timers).next)
     ELSE /\ scannedResult' = result
          /\ isDrawerOpen' = TRUE
          /\ history' = InsertResult(history, result)
          /\ resultChanged' = TRUE
          /\ activated' = activated (+) SetToBag({ts})
          /\ sessionInserts' = sessionInserts + 1
          /\ lastOp' = ScanOp(ts, TRUE, Head(timers).next)
          /\ UNCHANGED view
  /\ UNCHANGED << rendered, scannerVars, drawerVars, nDecodes, nTaps, overlay >>
  /\ UNCHANGED << cameraVars, serviceVars >>

\* React renders the updates queued by timers and promise callbacks.
Render ==
  /\ resultChanged \/ rendered # AppState(scannedResult, isDrawerOpen, history, view)
  /\ Commit(scannedResult, isDrawerOpen, history, view, resultChanged, FALSE)
  /\ lastOp' = Op("render", 0, resultChanged)
  /\ UNCHANGED << appVars, now, nDecodes, nTaps, activated, sessionInserts >>
  /\ UNCHANGED << cameraVars, serviceVars >>

\* closeDrawer closing the drawer and leaving the active result in place
CloseDrawerKeepResult ==
  /\ rendered.scannedResult # Null
  /\ isDrawerOpen' = FALSE
  /\ Commit(rendered.scannedResult, FALSE, rendered.history, view, FALSE, FALSE)
  /\ sessionInserts' = 0
  /\ lastOp' = Op("close", 0, TRUE)
  /\ UNCHANGED << scannedResult, history, view, now, nDecodes, nTaps, activated >>
  /\ UNCHANGED << cameraVars, serviceVars >>

\* App.closeDrawer, from a click on the drawer that is on screen. The click renders
\* its own updates at once; updates queued by timers and promises render later.
CloseDrawer ==
  /\ rendered.scannedResult # Null
  /\ isDrawerOpen' = FALSE
  /\ scannedResult' = Null
  /\ Commit(Null, FALSE, rendered.history, view, TRUE, FALSE)
  /\ sessionInserts' = 0
  /\ lastOp' = Op("close", 0, TRUE)
  /\ UNCHANGED << history, view, now, nDecodes, nTaps, activated >>
  /\ UNCHANGED << cameraVars, serviceVars >>

\* The view switch rendering the updates queued by timers together with its own
ToggleViewFlushAll ==
  /\ rendered.scannedResult = Null
  /\ LET v == IF rendered.view = "scan" THEN "history" ELSE "scan" IN
     /\ view' = v
     /\ Commit(scannedResult, isDrawerOpen, history, v, resultChanged, FALSE)
  /\ lastOp' = Op("view", 0, TRUE)
  /\ UNCHANGED << scannedResult, isDrawerOpen, history, now, nDecodes, nTaps,
                  activated, sessionInserts >>
  /\ UNCHANGED << cameraVars, serviceVars >>

\* The header button: setView(view === 'scan' ? 'history' : 'scan').
ToggleView ==
  /\ rendered.scannedResult = Null
  /\ LET v == IF rendered.view = "scan" THEN "history" ELSE "scan" IN
     /\ view' = v
     /\ Commit(rendered.scannedResult, rendered.isDrawerOpen, rendered.history, v,
               FALSE, resultChanged)
  /\ lastOp' = Op("view", 0, TRUE)
  /\ UNCHANGED << scannedResult, isDrawerOpen, history, now, nDecodes, nTaps,
                  activated, sessionInserts >>
  /\ UNCHANGED << cameraVars, serviceVars >>

TapRows(hist) == { i \in DOMAIN hist : i <= MaxRows \/ i = Len(hist) }

\* onClick of a history item on screen.
HistoryTap(i) ==
  /\ rendered.view = "history"
  /\ rendered.scannedResult = Null
  /\ i \in TapRows(rendered.history)
  /\ nTaps < MaxTaps
  /\ nTaps' = nTaps + 1
  /\ LET item == rendered.history[i] IN
     /\ scannedResult' = item
     /\ isDrawerOpen' = TRUE
     /\ Commit(item, TRUE, rendered.history, view, TRUE, FALSE)
     /\ activated' = activated (+) SetToBag({item.timestamp})
     /\ lastOp' = Op("tap", item.timestamp, item.analysis # Null)
  /\ UNCHANGED << history, view, now, nDecodes, sessionInserts >>
  /\ UNCHANGED << cameraVars, serviceVars >>

\* The merge matching entries by payload instead of timestamp
MergeByData(hist, timestamp, res) ==
  LET hit == { hist[i].data : i \in { j \in DOMAIN hist : hist[j].timestamp = timestamp } } IN
  [i \in DOMAIN hist |->
     IF hist[i].data \in hit
     THEN [hist[i] EXCEPT !.analysis = res]
     ELSE hist[i]]

\* The merge as an upsert: a timestamp History does not hold gets a new entry
MergeUpsert(hist, timestamp, res) ==
  IF \E i \in DOMAIN hist : hist[i].timestamp = timestamp
  THEN [i \in DOMAIN hist |->
          IF hist[i].timestamp = timestamp
          THEN [hist[i] EXCEPT !.analysis = res]
          ELSE hist[i]]
  ELSE Append(hist, [data |-> << >>, format |-> "", timestamp |-> timestamp,
                     type |-> "text", analysis |-> res])

\* App.handleAnalysisComplete(timestamp, analysis)
MergeAnalysis(hist, timestamp, res) ==
  [i \in DOMAIN hist |->
     IF hist[i].timestamp = timestamp
     THEN [hist[i] EXCEPT !.analysis = res]
     ELSE hist[i]]

\* The .then callback of analyzeQRContent in the drawer effect.
AnalysisDone(call, res) ==
  /\ BagIn(call, calls)
  /\ calls' = calls (-) SetToBag({call})
  /\ analysis' = res
  /\ loading' = FALSE
  /\ history' = MergeAnalysis(history, call.timestamp, res)
  /\ lastOp' = Op("done", call.timestamp, \E i \in DOMAIN history : history[i].timestamp = call.timestamp)
  /\ UNCHANGED << scannedResult, isDrawerOpen, view, rendered, resultChanged,
                  scannerVars, timers, now, nDecodes, nTaps, issued, activated,
                  sessionInserts, overlay >>
  /\ UNCHANGED << cameraVars, serviceVars >>

Next ==
  \/ \E code \in Codes : Decode(code)
  \/ \E ts \in {now, now + 1} : TimerFire(ts)
  \/ Render
  \/ CloseDrawer
  \/ ToggleView
  \/ \E i \in TapRows(rendered.history) : HistoryTap(i)
  \/ \E call \in BagToSet(calls), res \in Analyses : AnalysisDone(call, res)

Spec == Init /\ [][Next]_vars

(* ------------------------------------------------- a run with History full *)
\* History after n scans at instants 1..n, each drawer closed again and every
\* enrichment but the first scan's completed.
Prefill(n) ==
  [i \in 1..n |->
     LET ts == n + 1 - i IN
     [ ScanResult(IF ts % 2 = 0 THEN EanDigits ELSE QrUrl, ts)
       EXCEPT !.analysis = IF ts = 1 THEN Null ELSE [safety |-> "safe"] ]]

InitFull ==
  /\ \E n \in {HistoryMax - 1, HistoryMax} :
       /\ history = Prefill(n)
       /\ rendered = AppState(Null, FALSE, Prefill(n), "scan")
       /\ now = n
       /\ issued = SetToBag(1..n)
       /\ activated = SetToBag(1..n)
       /\ calls = SetToBag({EnrichCall(Prefill(n)[n])})
  /\ scannedResult = Null
  /\ isDrawerOpen = FALSE
  /\ view = "scan"
  /\ resultChanged = FALSE
  /\ isScanningRef = TRUE
  /\ onScanRef = FALSE
  /\ timers = << >>
  /\ analysis = [safety |-> "safe"]
  /\ loading = FALSE
  /\ nDecodes = 0
  /\ overlay = NoDrawing
  /\ nTaps = 0
  /\ sessionInserts = 0
  /\ lastOp = Op("init", 0, FALSE)
  /\ InitCamera
  /\ InitService({BuildKey})

\* The steps of that run: every step of Next but the history tap (the list is
\* looked at, nothing is opened from it).
NextFull ==
  \/ \E code \in Codes : Decode(code)
  \/ \E ts \in {now, now + 1} : TimerFire(ts)
  \/ Render
  \/ CloseDrawer
  \/ ToggleView
  \/ \E call \in BagToSet(calls), res \in Analyses : AnalysisDone(call, res)

SpecFull == InitFull /\ [][NextFull]_vars

(* -------------------------------------------- the camera of the Scanner *)
\* The mounted Scanner with its mode buttons, torch button and camera start.
InitAnyCamera ==
  InitSession /\ (InitCamera \/ InitCameraUnsupported) /\ InitService({BuildKey})

SpecCamera == InitAnyCamera /\ [][NextCamera]_vars

(* ------------------------------------------------ the enrichment service *)
SpecService == InitBuilds /\ [][NextService]_vars

(* ------------------------------------------------- a scan-view session *)
\* A session that never leaves the scan view: decode events, hand-offs, renders,
\* closing the drawer and enrichment completions.
NextBurst ==
  \/ \E code \in Codes : DecodeBurst(code)
  \/ \E ts \in {now, now + 1} : TimerFire(ts)
  \/ Render
  \/ CloseDrawer
  \/ \E call \in BagToSet(calls), res \in Analyses : AnalysisDone(call, res)

SpecBurst == Init /\ [][NextBurst]_vars

(* ------------------------------------------- one scan of any payload *)
\* Decoded texts that meet every branch of determineType and its near misses.
Texts ==
  { <<"h", "t", "t", "p", ":", "/", "/", "a">>,
    <<"h", "t", "t", "p", "s", ":", "/", "/", "a">>,
    <<"h", "t", "t", "p">>,
    <<"h", "t", "t", "p", "d">>,
    <<"H", "T", "T", "P", ":", "/", "/", "A">>,
    <<"x", "h", "t", "t", "p", ":", "/", "/">>,
    <<"W", "I", "F", "I", ":", "S">>,
    <<"w", "i", "f", "i", ":">>,
    <<"0", "1">>,
    << >> }

\* The format values a decode result can carry: the enum members Scanner names
\* and one value it does not name.
FormatValues ==
  { BarcodeFormat[n] : n \in DOMAIN BarcodeFormat } \cup { Cardinality(DOMAIN BarcodeFormat) }

AnyCodes == [text : Texts, format : FormatValues, points : {Points(MaxPoints)}]

\* The first decode event of a session.
DecodeFirst(code) == nDecodes = 0 /\ Decode(code)

\* A session with one decode event of any payload and format.
NextClassify ==
  \/ \E code \in AnyCodes : DecodeFirst(code)
  \/ \E ts \in {now, now + 1} : TimerFire(ts)
  \/ Render
  \/ CloseDrawer
  \/ ToggleView
  \/ \E i \in TapRows(rendered.history) : HistoryTap(i)
  \/ \E call \in BagToSet(calls), res \in Analyses : AnalysisDone(call, res)

SpecClassify == Init /\ [][NextClassify]_vars

(* ------------------------------------------------- the overlay canvas *)
\* Decode results of every format value with 0 to MaxPoints result points.
OverlayCodes ==
  [text : {QrUrl.text}, format : FormatValues, points : { Points(n) : n \in 0..MaxPoints }]

\* Scanner.handleDecode(result, err) for a frame in which no code was found.
FrameNoMatch ==
  /\ rendered.view = "scan"
  /\ lastOp' = Op("nomatch", 0, isScanningRef)
  /\ UNCHANGED << appVars, rendered, resultChanged, scannerVars, drawerVars, timers, now,
                  nDecodes, nTaps, activated, sessionInserts, overlay >>
  /\ UNCHANGED << cameraVars, serviceVars >>

\* A session in the scan view whose first decode result is any of OverlayCodes,
\* with frames that find no code.
NextOverlay ==
  \/ \E code \in OverlayCodes : DecodeFirst(code)
  \/ \E code \in Codes : Decode(code)
  \/ FrameNoMatch
  \/ \E ts \in {now, now + 1} : TimerFire(ts)
  \/ Render
  \/ CloseDrawer
  \/ \E call \in BagToSet(calls), res \in Analyses : AnalysisDone(call, res)

SpecOverlay == Init /\ [][NextOverlay]_vars

(* ================================================================ claims *)
HasTimestamp(hist, ts) == \E i \in DOMAIN hist : hist[i].timestamp = ts

\* C1: a decode event that arrives while the controller is paused
\* (isScanningRef.current is false) schedules no hand-off and leaves History, the
\* active result and the drawer flag as they were.
C1_DropWhilePaused ==
  [][ (lastOp'.op = "decode" /\ ~isScanningRef)
        => /\ timers' = timers
           /\ history' = history
           /\ scannedResult' = scannedResult
           /\ isDrawerOpen' = isDrawerOpen ]_vars

\* C1 witness: a decode event was dropped while the drawer was open.
C1_Witness ==
  /\ lastOp = Op("decode", 0, FALSE)
  /\ isDrawerOpen
  /\ ~isScanningRef

\* C2: between two closeDrawer calls at most one scan is surfaced (inserted into
\* History and made the active result).
C2_OneSurfacedPerDrawer == sessionInserts <= 1

C4_CacheHit ==
  [][ (lastOp'.op = "tap" /\ scannedResult'.analysis # Null)
        => /\ calls' = calls
           /\ issued' = issued
           /\ analysis' = scannedResult'.analysis
           /\ loading' = FALSE ]_vars

\* C4 witness: the drawer was opened from History on an item with analysis.
C4_Witness ==
  /\ lastOp.op = "tap"
  /\ lastOp.flag
  /\ scannedResult # Null
  /\ scannedResult.analysis # Null
  /\ analysis = scannedResult.analysis
  /\ ~loading

\* C5: a tap on a history item that lacks analysis issues exactly one enrichment
\* call, for that item.
C5_ReopenFetchesOnce ==
  [][ (lastOp'.op = "tap" /\ scannedResult'.analysis = Null)
        => /\ calls' = calls (+) SetToBag({EnrichCall(scannedResult')})
           /\ BagCardinality(issued') = BagCardinality(issued) + 1
           /\ loading' = TRUE ]_vars

\* C5 witness: an item whose enrichment is still in flight was opened again.
C5_Witness ==
  /\ lastOp.op = "tap"
  /\ ~lastOp.flag
  /\ CopiesIn(lastOp.ts, issued) = 2
  /\ loading

NewestFirst(hist) ==
  \A i \in 1..(Len(hist) - 1) : hist[i].timestamp >= hist[i + 1].timestamp

\* C6: History never holds more than 50 entries and is ordered newest first; a
\* surfaced scan goes to the head, and of the entries before it only the last
\* one is dropped, and only when History was full.
C6_FifoBounded ==
  /\ [](Len(history) <= HistoryMax /\ NewestFirst(history))
  /\ [][ (lastOp'.op = "scan" /\ lastOp'.flag)
           => /\ history'[1] = scannedResult'
              /\ Tail(history') = SubSeq(history, 1, Min(Len(history), HistoryMax - 1)) ]_vars

\* C6 witness: a scan was surfaced into a full History and the oldest entry
\* (timestamp 1) is gone.
C6_Witness ==
  /\ lastOp.op = "scan"
  /\ lastOp.flag
  /\ Len(history) = HistoryMax
  /\ ~HasTimestamp(history, 1)

\* C7: a surfaced scan adds exactly one entry to History, whatever its data; a
\* history tap leaves History as it was.
C7_OneEntryPerScan ==
  [][ /\ (lastOp'.op = "scan" /\ lastOp'.flag)
         => /\ Len(history') = Min(Len(history) + 1, HistoryMax)
            /\ history'[1].timestamp = lastOp'.ts
            /\ \A i \in 2..Len(history') : history'[i] = history[i - 1]
      /\ (lastOp'.op = "tap") => history' = history ]_vars

\* C7 witness: a scan with the data of an existing entry was surfaced as a
\* second entry.
C7_Witness ==
  /\ lastOp.op = "scan"
  /\ lastOp.flag
  /\ Len(history) >= 2
  /\ history[1].data = history[2].data

\* C8: an enrichment completion for timestamp t sets analysis, and nothing else,
\* on every entry with timestamp t, and changes no other entry, nor the length
\* and order of History, the active result, the drawer flag or the view.
C8_MergeByTimestamp ==
  [][ (lastOp'.op = "done")
        => /\ Len(history') = Len(history)
           /\ \A i \in DOMAIN history :
                history'[i] = IF history[i].timestamp = lastOp'.ts
                              THEN [history[i] EXCEPT !.analysis = analysis']
                              ELSE history[i]
           /\ scannedResult' = scannedResult
           /\ isDrawerOpen' = isDrawerOpen
           /\ view' = view ]_vars

\* C8 witness: a completion was merged while History held another entry with the
\* same data and a different timestamp, which still has no analysis.
C8_Witness ==
  /\ lastOp.op = "done"
  /\ \E i, j \in DOMAIN history :
       /\ history[i].timestamp = lastOp.ts
       /\ history[i].analysis = analysis
       /\ history[j].timestamp # lastOp.ts
       /\ history[j].data = history[i].data
       /\ history[j].analysis = Null

\* C9: an entry that carries analysis keeps it: no enrichment completion changes
\* the analysis of such an entry.
C9_AnalysisWrittenOnce ==
  [][ (lastOp'.op = "done")
        => \A i \in DOMAIN history :
             history[i].analysis # Null => history'[i].analysis = history[i].analysis ]_vars

\* C10: an enrichment completion for a timestamp History does not hold (the
\* entry was evicted) leaves History as it was.
C10_LateWriteNoOp ==
  [][ (lastOp'.op = "done" /\ ~HasTimestamp(history, lastOp'.ts))
        => history' = history ]_vars

\* C10 witness: the enrichment of the evicted oldest entry completed on a full
\* History.
C10_Witness ==
  /\ lastOp = Op("done", 1, FALSE)
  /\ Len(history) = HistoryMax
  /\ ~HasTimestamp(history, 1)

\* C11: an enrichment call in flight is never cancelled: no step other than a
\* completion takes a call out of flight (closing the drawer, surfacing or opening
\* another result included); a completion ends exactly one call of its timestamp,
\* leaves every other call in flight, and every History entry of that timestamp
\* then carries the returned analysis.
C11_NoCancellation ==
  [][ /\ (lastOp'.op # "done") =>
           \A c \in BagToSet(calls) : CopiesIn(c, calls') >= CopiesIn(c, calls)
      /\ (lastOp'.op = "done") =>
           /\ \E c \in BagToSet(calls) :
                 /\ c.timestamp = lastOp'.ts
                 /\ calls' = calls (-) SetToBag({c})
           /\ \A i \in DOMAIN history' :
                 history'[i].timestamp = lastOp'.ts => history'[i].analysis = analysis'
    ]_vars

\* C11 witness: the call of an earlier result completed and was merged into its
\* History entry while another result is active with its own call still in flight.
C11_Witness ==
  /\ lastOp.op = "done"
  /\ lastOp.flag
  /\ scannedResult # Null
  /\ scannedResult.timestamp # lastOp.ts
  /\ \E c \in BagToSet(calls) : c.timestamp = scannedResult.timestamp
  /\ \E i \in DOMAIN history :
        history[i].timestamp = lastOp.ts /\ history[i].analysis # Null

\* C12: whenever the drawer is open while the Scanner is mounted, the accepting
\* flag read by the decode handler is false.
C12_PausedWhileOpen ==
  (isDrawerOpen /\ rendered.view = "scan") => ~isScanningRef

\* C13: the decode event that directly follows closeDrawer in the scan view is
\* accepted, and its hand-off timer surfaces its result.
C13_NextDecodeSurfaced ==
  /\ [][ (lastOp.op = "close" /\ view = "scan" /\ lastOp'.op = "decode")
           => lastOp'.flag ]_vars
  /\ []((lastOp.op = "scan" /\ lastOp.next) => lastOp.flag)

\* C14: right after the view switched to scan the controller is accepting: the
\* accepting flag is true and the hand-off handler sees the drawer closed.
C14_RearmOnScanView ==
  (lastOp.op = "view" /\ view = "scan") => (isScanningRef /\ ~onScanRef)

\* C14 witness: the view came back to scan after a decode event had been accepted
\* and History had been looked at, and the controller is accepting.
C14_Witness ==
  /\ lastOp.op = "view"
  /\ view = "scan"
  /\ nDecodes > 0
  /\ isScanningRef

\* The results the App holds: the History entries and the active result.
Held ==
  { history[i] : i \in DOMAIN history } \cup
  (IF scannedResult = Null THEN {} ELSE { scannedResult })

IsHttpScheme(data) ==
  \/ startsWith(data, <<"h", "t", "t", "p", ":", "/", "/">>)
  \/ startsWith(data, <<"h", "t", "t", "p", "s", ":", "/", "/">>)

\* C18: the type of every result follows the first matching rule: text with an
\* HTTP(S) scheme prefix is url, else text with the prefix WIFI: is wifi, else a
\* format among EAN_8, EAN_13, UPC_A, UPC_E, CODE_39, CODE_128 is product, else
\* text; so text without an HTTP(S) scheme prefix is never url.
C18_ClassifyRules ==
  \A r \in Held :
    r.type = IF IsHttpScheme(r.data) THEN "url"
             ELSE IF startsWith(r.data, <<"W", "I", "F", "I", ":">>) THEN "wifi"
             ELSE IF r.format \in {"EAN_8", "EAN_13", "UPC_A", "UPC_E", "CODE_39", "CODE_128"}
                  THEN "product"
             ELSE "text"

\* C19: every result, whatever its text and format value, carries a format name
\* of the table or UNKNOWN and exactly one type among url, wifi, product and text;
\* that type is the classifier's value for its text and format name at every
\* later time, after its analysis was merged included.
C19_TypeTotalAndFixed ==
  \A r \in Held :
    /\ r.format \in DOMAIN BarcodeFormat \cup {"UNKNOWN"}
    /\ r.type \in {"url", "wifi", "product", "text"}
    /\ r.type = determineType(r.data, r.format)

\* C19 witness: a result of a format value outside the table is held as UNKNOWN
\* text after its analysis was merged.
C19_Witness ==
  \E i \in DOMAIN history :
    /\ history[i].format = "UNKNOWN"
    /\ history[i].type = "text"
    /\ history[i].analysis # Null

\* The runs whose decode loop is on.
ActiveRuns == { i \in DOMAIN runs : runs[i].phase = "running" }

\* C15: at most one decode run is active at any time, and every run but the newest
\* is over (stopped, given up or failed): a mode change leaves no earlier run
\* starting or running.
C15_SingleDecodeRun ==
  /\ Cardinality(ActiveRuns) <= 1
  /\ \A i \in DOMAIN runs :
        i < Len(runs) => runs[i].phase \in {"stopped", "cancelled", "failed"}

\* C16: the newest run has the formats of the current mode, and from a mode change
\* until the next click on the torch button the torch indicator is off.
C16_TorchOffAfterModeChange ==
  /\ runs[Len(runs)].mode = scanMode
  /\ runs[Len(runs)].formats = ModeFormats(scanMode)
  /\ (nModeChanges > 0 /\ ~toggledSince) => ~torchOn

\* C17: every run is created with the formats of the table for its mode, and the
\* auto set is a proper subset of the union of the two others.
C17_SymbologyTable ==
  LET F == BarcodeFormat
      Table == [ qr |-> { F.QR_CODE, F.AZTEC, F.DATA_MATRIX, F.PDF_417 },
                 barcode |-> { F.CODE_128, F.CODE_39, F.CODE_93, F.EAN_13, F.EAN_8,
                               F.UPC_A, F.UPC_E, F.ITF, F.CODABAR, F.RSS_14 },
                 auto |-> { F.QR_CODE, F.AZTEC, F.DATA_MATRIX, F.CODE_128, F.CODE_39,
                            F.EAN_13, F.EAN_8, F.UPC_A, F.UPC_E, F.PDF_417 } ]
  IN /\ \A i \in DOMAIN runs : runs[i].formats = Table[runs[i].mode]
     /\ ModeFormats("auto") \subseteq ModeFormats("qr") \cup ModeFormats("barcode")
     /\ ModeFormats("auto") # ModeFormats("qr") \cup ModeFormats("barcode")

\* C17 witness: the Scanner has run in all three modes and the newest run decodes.
C17_Witness ==
  /\ { runs[i].mode : i \in DOMAIN runs } = Modes
  /\ runs[Len(runs)].phase = "running"

C21_AlwaysValidResult ==
  (returned # Null) =>
    /\ "safety" \in DOMAIN returned
    /\ returned.safety \in {"safe", "caution", "danger", "unknown"}

\* The message the scan view shows for each kind of capture failure.
FailureMessage ==
  [ NotAllowedError |-> "permission denied", NotFoundError |-> "no camera device",
    OtherError |-> "unable to access camera", unsupported |-> "not supported" ]

\* C22: a start that fails (both attempts rejected, or no media API) leaves the
\* scan view blocked (hasPermission false) with the message of the failure kind,
\* and no start is retried: a failed run stays failed and a new run begins only
\* with a mode change.
C22_BlockingErrorNoRetry ==
  /\ []((runs[1].failure = "unsupported") =>
          (hasPermission = "false" /\ error = FailureMessage.unsupported /\ Len(runs) = 1))
  /\ [][ /\ \A i \in DOMAIN runs :
             /\ (Pending(runs[i]) /\ runs'[i].phase = "failed") =>
                  (hasPermission' = "false" /\ error' = FailureMessage[runs'[i].failure])
             /\ (runs[i].phase = "failed") => (runs'[i].phase = "failed")
         /\ (Len(runs') > Len(runs)) => (scanMode' # scanMode)
       ]_vars

\* C22 witness: the start of the barcode mode failed for lack of permission and
\* the scan view is blocked with that message.
C22_Witness ==
  /\ runs[Len(runs)].mode = "barcode"
  /\ runs[Len(runs)].failure = "NotAllowedError"
  /\ hasPermission = "false"
  /\ error = "permission denied"

\* C23: while the Scanner is mounted and paused the overlay is empty, and after a
\* frame in which no code was found the overlay is empty.
C23_OverlayCleared ==
  /\ (rendered.view = "scan" /\ ~isScanningRef) => overlay = NoDrawing
  /\ (lastOp.op = "nomatch") => overlay = NoDrawing

\* C24: right after an accepted decode event the overlay is, for an area format
\* (QR_CODE, AZTEC, DATA_MATRIX, MAXICODE, PDF_417), the filled path through all
\* result points in order, closed when there is a point; for any other format the
\* one segment from the first to the last point, and nothing with fewer than 2.
C24_OverlayShape ==
  (lastOp.op = "decode" /\ lastOp.flag) =>
    LET code == timers[Len(timers)].code
        p    == code.points
        area == getFormatName(code.format) \in
                  {"QR_CODE", "AZTEC", "DATA_MATRIX", "MAXICODE", "PDF_417"}
    IN IF area
       THEN /\ overlay.path = p
            /\ overlay.filled
            /\ overlay.closed = (Len(p) > 0)
       ELSE IF Len(p) >= 2
            THEN /\ overlay.path = << p[1], p[Len(p)] >>
                 /\ ~overlay.filled
                 /\ ~overlay.closed
            ELSE overlay.path = << >>

\* C24 witness: a linear code was decoded with three result points and the
\* overlay is the segment between the first and the third.
C24_Witness ==
  /\ lastOp.op = "decode"
  /\ lastOp.flag
  /\ timers[Len(timers)].code.format = BarcodeFormat.CODE_128
  /\ Len(timers[Len(timers)].code.points) > 2
  /\ Len(overlay.path) = 2

\* The decode results of the pending hand-offs, in firing order.
PendingCodes(ts) == [i \in DOMAIN ts |-> ts[i].code]

\* C25: an accepted decode event draws the overlay and adds one hand-off timer for
\* its result behind the pending ones, which stay as they are, and hands nothing
\* to App in that step; a hand-off takes exactly the oldest timer and calls
\* handleScan with its result; no other step adds, drops or changes a hand-off.
C25_DebouncedHandOff ==
  [][ /\ (lastOp'.op = "decode" /\ lastOp'.flag) =>
           /\ Len(timers') = Len(timers) + 1
           /\ SubSeq(timers', 1, Len(timers)) = timers
           /\ overlay' = drawResultOverlay(timers'[Len(timers')].code.points,
                                           timers'[Len(timers')].code.format)
           /\ << scannedResult, isDrawerOpen, history >>' =
                << scannedResult, isDrawerOpen, history >>
      /\ (lastOp'.op = "scan") =>
           /\ timers' = Tail(timers)
           /\ lastOp'.flag =>
                /\ scannedResult'.data = Head(timers).code.text
                /\ history'[1] = scannedResult'
      /\ (lastOp'.op \notin {"decode", "scan"} \/ (lastOp'.op = "decode" /\ ~lastOp'.flag)) =>
           PendingCodes(timers') = PendingCodes(timers)
    ]_vars

\* C25 witness: a decode event was accepted while the hand-off of an earlier one
\* was still pending.
C25_Witness ==
  /\ lastOp.op = "decode"
  /\ lastOp.flag
  /\ Len(timers) > 1

\* C26: when an enrichment completion has just set the drawer's analysis (loading
\* false) while the drawer shows result R, the completed call was a call for R.
C26_AnalysisOfActiveResult ==
  ( /\ lastOp.op = "done"
    /\ rendered.scannedResult # Null
    /\ scannedResult = rendered.scannedResult
    /\ ~loading
    /\ analysis # Null )
  => lastOp.ts = scannedResult.timestamp

\* C27: a hand-off timer that fires while the history view is selected surfaces
\* nothing: it does not open the drawer, set the active result or insert into
\* History.
C27_NoSurfacingInHistoryView ==
  (lastOp.op = "scan" /\ view = "history" /\ rendered.view = "history") => ~lastOp.flag

\* C28: the active result is non-null exactly when the drawer is open, in the
\* state the setters wrote and in the state last rendered; a step that changes
\* either is a hand-off that surfaced, a history tap or closeDrawer, and it
\* leaves both set or both cleared.
C28_ResultIffDrawerOpen ==
  /\ [](/\ (scannedResult # Null) <=> isDrawerOpen
        /\ (rendered.scannedResult # Null) <=> rendered.isDrawerOpen)
  /\ [][ (<< scannedResult, isDrawerOpen >>' # << scannedResult, isDrawerOpen >>) =>
           \/ /\ lastOp'.op = "scan" /\ lastOp'.flag
              /\ scannedResult' # Null /\ isDrawerOpen'
           \/ /\ lastOp'.op = "tap"
              /\ scannedResult' # Null /\ isDrawerOpen'
           \/ /\ lastOp'.op = "close"
              /\ scannedResult' = Null /\ ~isDrawerOpen'
       ]_vars

\* The drawer was opened by a history tap and closed again.
C28_Witness ==
  /\ lastOp.op = "close"
  /\ nTaps > 0
  /\ scannedResult = Null
  /\ ~isDrawerOpen
  /\ history # << >>

\* C29: no two entries of History carry the same timestamp.
C29_UniqueTimestamps ==
  \A i, j \in DOMAIN history :
    history[i].timestamp = history[j].timestamp => i = j

\* C30: when the start attempt of a run whose effect was already cleaned up by a
\* mode change resolves or fails, the scanner status (permission, error, torch
\* availability) stays as it was.
C30_StaleRunNoEffect ==
  [][ \A i \in DOMAIN runs :
        (runs[i].cleaned /\ Pending(runs[i]) /\ runs'[i] # runs[i]) =>
          << hasPermission, error, hasTorch >>' = << hasPermission, error, hasTorch >>
    ]_vars

====
